---- MODULE Spec2Model ----
(***************************************************************************)
(* State-machine model of src/api/webview.cpp: the UI-thread event loop    *)
(* (webview_start), the blocking-but-pumping wait (block), the window      *)
(* procedure (WndProc), the fullscreen-change handler registered by the    *)
(* _webview constructor, and the cross-thread dispatch (webview_dispatch). *)
(*                                                                         *)
(* The UI thread's call stack is at most                                   *)
(*   webview_start -> (entry callback | dispatch func) -> webview_new ->   *)
(*   block -> WndProc / control notification,                              *)
(* held in uiPc (the frame of webview_start), curFunc (the dispatch item   *)
(* whose func is running) and waiting (the window whose constructor is in  *)
(* the wait of block).                                                     *)
(*                                                                         *)
(* The model follows the one window the wiring of the repository creates;  *)
(* windows share nothing but the UI thread and its message queue.          *)
(***************************************************************************)
EXTENDS Integers, Sequences, FiniteSets, TLC

\* ------------------------------------------------------------------ bounds
\* Dispatch items allocated in one run
MaxItems == 2
\* messages the queue of the UI thread holds at once
MaxQueue == 2
\* events raised by the window manager and the control (resize, size query,
\* close request, fullscreen notification) in one run
MaxEnv == 3

Items == 1..MaxItems
Windows == {1}

\* ------------------------------------------------------- platform constants
WM_APP_DISPATCH == "WM_APP_DISPATCH"
WM_CLOSE == "WM_CLOSE"
WM_DESTROY == "WM_DESTROY"
WM_SIZE == "WM_SIZE"
WM_GETMINMAXINFO == "WM_GETMINMAXINFO"
\* the last message of a window; DestroyWindow sends it after WM_DESTROY
WM_NCDESTROY == "WM_NCDESTROY"

WS_CAPTION == {"WS_BORDER", "WS_DLGFRAME"}
WS_THICKFRAME == {"WS_THICKFRAME"}
WS_OVERLAPPEDWINDOW == WS_CAPTION \cup WS_THICKFRAME \cup {"WS_SYSMENU", "WS_MINMAXBOX"}
WS_VISIBLE == {"WS_VISIBLE"}
\* every bit of a LONG set: the value -1
AllStyleBits == WS_OVERLAPPEDWINDOW \cup WS_VISIBLE \cup {"WS_OTHER"}

MkRECT(l, t, r, b) == [left |-> l, top |-> t, right |-> r, bottom |-> b]
\* winrt::Windows::Foundation::Rect
Rect(x, y, w, h) == [X |-> x, Y |-> y, Width |-> w, Height |-> h]

\* the monitor the windows live on: its full rectangle and its work area
rcMonitor == MkRECT(0, 0, 8, 6)
rcWork == MkRECT(0, 0, 8, 5)
\* rectangles the window manager (user, other programs) moves/resizes a window to
UserRects == {MkRECT(2, 1, 7, 6)}
\* what an uninitialised RECT on the stack may hold
GarbageRects == {MkRECT(3, 3, 4, 4)}
\* the system's default minimum track size
DefaultMinTrack == <<1, 1>>

\* LONG is a signed 32-bit integer and size_t is wider or unsigned; the model
\* keeps the conversion and scales the width of LONG down to LongBits bits
LongBits == 8
\* the conversion of a size_t to LONG (lines 152-153): the low 32 bits, signed
ToLONG(n) ==
    LET m == n % (2 ^ LongBits)
    IN  IF m >= 2 ^ (LongBits - 1) THEN m - 2 ^ LongBits ELSE m

\* webview_options values the host passes to webview_new
\* opts.data of window w (an opaque pointer, distinct per window)
DataOf(w) == 100 + w
OptionSet(w) ==
    { [initial_width |-> 4, initial_height |-> 4,
       minimum_width |-> 3, minimum_height |-> 2 ^ (LongBits - 1) + 2,
       borderless |-> FALSE,
       data |-> DataOf(w)] }

VARIABLES
    uiPc,        \* frame of webview_start: "notstarted","entry","loop","returned"
    curFunc,     \* dispatch item whose func is executing on the UI thread, 0 if none
    waiting,     \* window whose constructor is inside block's wait, 0 if none
    crashed,     \* the process faulted (access violation, unhandled exception)
    MAIN_THREAD, \* static DWORD MAIN_THREAD: 0 until webview_start sets it
    queue,       \* posted-message queue of the UI thread
    quitFlag,    \* PostQuitMessage was called (WM_QUIT is synthesised on empty queue)
    retrievalFailed, \* GetMessage returned -1
    item,        \* per Dispatch item: its fate and counters
    nextItem,    \* next Dispatch item to be allocated
    execLog,     \* sequence of dispatch items in the order their func started
    win,         \* per window: native window, handle, control, fullscreen closure state
    ev,          \* the last step taken (history variable)
    envLeft      \* events the environment may still raise

vars == <<uiPc, curFunc, waiting, crashed, MAIN_THREAD, queue, quitFlag,
          retrievalFailed, item, nextItem, execLog, win, ev, envLeft>>

UIThreadId == 1

\* ----------------------------------------------------------------- helpers
Msg(h, m, l) == [hwnd |-> h, message |-> m, lParam |-> l]

RemoveAt(s, k) == [j \in 1..(Len(s) - 1) |-> IF j < k THEN s[j] ELSE s[j + 1]]

\* frame sizes of a window with the given style
FrameOf(style) == IF WS_THICKFRAME \subseteq style THEN 1 ELSE 0
CaptionOf(style) == IF WS_CAPTION \subseteq style THEN 1 ELSE 0
NonNeg(n) == IF n < 0 THEN 0 ELSE n

\* the client area (client coordinates) the system computes for a window
\* rectangle and a style when the frame is (re)calculated
ClientOf(wrect, style) ==
    MkRECT(0, 0,
           NonNeg((wrect.right - wrect.left) - 2 * FrameOf(style)),
           NonNeg((wrect.bottom - wrect.top) - 2 * FrameOf(style) - CaptionOf(style)))

\* getClientRect(hwnd), lines 36-45; clientRect is what GetClientRect(hwnd, ..) stored
getClientRect(clientRect) ==
    Rect(clientRect.left,
         clientRect.top,
         clientRect.right - clientRect.left,
         clientRect.bottom - clientRect.top)

NoOpts == [initial_width |-> 0, initial_height |-> 0,
           minimum_width |-> 0, minimum_height |-> 0, borderless |-> FALSE,
           data |-> 0]
NoRECT == MkRECT(0, 0, 0, 0)
NoBounds == Rect(0, 0, 0, 0)

NoWindow ==
    [ hwnd |-> "none",          \* native window: "none","alive","destroyed"
      userdata |-> FALSE,       \* GWLP_USERDATA holds the handle (this)
      handle |-> "none",        \* _webview object: "none","constructing","live","freed"
      opts |-> NoOpts,
      async |-> "none",         \* CreateWebViewControlAsync: "none","pending","completed"
      registered |-> FALSE,     \* block registered a Completed handler (and created the event)
      signalled |-> FALSE,      \* the event of block is set
      webview |-> FALSE,        \* the control member is attached (non-null)
      Bounds |-> NoBounds,      \* the control's bounds
      wrect |-> NoRECT,         \* window rectangle (screen coordinates)
      crect |-> NoRECT,         \* client rectangle (client coordinates)
      style |-> {},             \* GWL_STYLE
      shown |-> FALSE,
      fsHandler |-> FALSE,      \* ContainsFullScreenElementChanged handler registered
      saved_fullscreen |-> FALSE,
      saved_rect |-> NoRECT,    \* RECT saved_rect;
      saved_rect_set |-> FALSE, \* saved_rect has been written (it has no initialiser)
      saved_style |-> AllStyleBits, \* LONG saved_style = -1
      life |-> <<>>,            \* closed-callback calls and the release of the handle, in order
      \* what WndProc did with an invalid handle: "null_deref" (dereferenced the
      \* null GWLP_USERDATA), "stale_lookup" (line 134 obtained a released handle),
      \* "stale_deref" (dereferenced a released handle)
      faults |-> {},
      \* history of the fullscreen handler: whether the last branch it took was the
      \* enter branch, and the rectangle and style the window had when it was entered
      fs_applied |-> FALSE,
      pre_rect |-> NoRECT,
      pre_style |-> {} ]

NoItem == [fate |-> "none", executed |-> 0, released |-> 0, inWait |-> 0]

\* history record of a step: what ran, for which window/item, with which inputs/outputs
Ev(op, w, i, a) == [op |-> op, w |-> w, i |-> i, a |-> a]

Init ==
    /\ uiPc = "notstarted"
    /\ curFunc = 0
    /\ waiting = 0
    /\ crashed = FALSE
    /\ MAIN_THREAD = 0
    /\ queue = <<>>
    /\ quitFlag = FALSE
    /\ retrievalFailed = FALSE
    /\ item = [i \in Items |-> NoItem]
    /\ nextItem = 1
    /\ execLog = <<>>
    /\ win = [w \in Windows |-> NoWindow]
    /\ ev = Ev("init", 0, 0, <<>>)
    /\ envLeft = MaxEnv

\* the loop retrieves the next message although a dispatch func has not returned
MainLoop_WhileFuncRuns == ~crashed /\ uiPc = "loop" /\ waiting = 0

\* the UI thread is retrieving messages in the loop of webview_start
MainLoop == ~crashed /\ uiPc = "loop" /\ curFunc = 0 /\ waiting = 0
\* the UI thread is inside CoWaitForMultipleHandles of block
InWait == ~crashed /\ waiting # 0
\* the UI thread runs host code: the entry callback or a dispatch func
UserCode == ~crashed /\ waiting = 0 /\ (uiPc = "entry" \/ curFunc # 0)

\* ------------------------------------------------------- window procedure
\* The part of the state a message handler can change.  Handlers are written
\* as functions from such a record to the record after the handler returned.
\* mmi is the MINMAXINFO a size-constraint query carries (its ptMinTrackSize).
Here == [win |-> win, queue |-> queue, quit |-> quitFlag, crashed |-> crashed,
         mmi |-> DefaultMinTrack]

\* outcomes of dereferencing a null handle (undefined behaviour): the access
\* faults and the process dies, or the build survives it without effect
UBOutcomes == {"crash", "survive"}
Choices == [ub : UBOutcomes, callsExit : BOOLEAN]

\* line 134: window = (webview)GetWindowLongPtr(hwnd, GWLP_USERDATA)
GetWindowLongPtr(S, w) ==
    IF S.win[w].userdata /\ S.win[w].handle = "freed"
    THEN [S EXCEPT !.win[w].faults = @ \cup {"stale_lookup"}]
    ELSE S

\* window-> is evaluated: the fault it is when window is null or released,
\* "" when window is the live handle
DerefFault(S, w) ==
    IF ~S.win[w].userdata THEN "null_deref"
    ELSE IF S.win[w].handle = "freed" THEN "stale_deref"
    ELSE ""

\* the state after a handler dereferenced an invalid handle
Faulted(S, w, c) ==
    [S EXCEPT !.win[w].faults = @ \cup {DerefFault(S, w)},
              !.crashed = (c.ub = "crash")]

\* WM_SIZE, lines 145-147: window->webview.Bounds(getClientRect(hwnd))
OnSize(S, w, c) ==
    IF DerefFault(S, w) = ""
    THEN [S EXCEPT !.win[w].Bounds = getClientRect(S.win[w].crect)]
    ELSE Faulted(S, w, c)

\* the handler with the two coordinates of ptMinTrackSize exchanged
OnGetMinMaxInfo_Swapped(S, w, c) ==
    IF S.win[w].userdata
    THEN [S EXCEPT !.mmi = <<ToLONG(S.win[w].opts.minimum_height),
                             ToLONG(S.win[w].opts.minimum_width)>>]
    ELSE S

\* WM_GETMINMAXINFO, lines 148-155 (falls through to DefWindowProc when window is null)
OnGetMinMaxInfo(S, w, c) ==
    IF S.win[w].userdata
    THEN [S EXCEPT !.mmi = <<ToLONG(S.win[w].opts.minimum_width),
                             ToLONG(S.win[w].opts.minimum_height)>>]
    ELSE S

\* WM_DESTROY, lines 141-144: closed callback, then delete window.
\* The closed callback is host code; it may call webview_exit.
OnDestroy(S, w, c) ==
    IF DerefFault(S, w) = ""
    THEN [S EXCEPT !.win[w].life = @ \o << <<"closed", S.win[w].opts.data>>, <<"delete", 0>> >>,
                   !.win[w].handle = "freed",
                   !.win[w].webview = FALSE,
                   !.quit = (S.quit \/ c.callsExit)]
    ELSE Faulted(S, w, c)

\* WM_NCDESTROY has no case: lines 156-157, DefWindowProc
OnNcDestroy(S, w, c) == S

\* DestroyWindow(hwnd): the window is destroyed, the messages posted to it are
\* flushed from the queue, and WM_DESTROY and then WM_NCDESTROY are sent to its
\* window procedure, which looks the handle up for each of them (line 134)
DestroyWindow(S, w, c) ==
    LET A == [S EXCEPT !.win[w].hwnd = "destroyed",
                       !.queue = SelectSeq(S.queue, LAMBDA m : m.hwnd # w)]
        B == OnDestroy(GetWindowLongPtr(A, w), w, c)
    IN  IF B.crashed THEN B ELSE OnNcDestroy(GetWindowLongPtr(B, w), w, c)

\* a window procedure that ignores the close request
OnClose_Ignored(S, w, c) == S

\* WM_CLOSE, lines 138-140
OnClose(S, w, c) == DestroyWindow(S, w, c)

\* WndProc, lines 132-161
WndProc(S, w, msg, c) ==
    LET T == GetWindowLongPtr(S, w)
    IN  CASE msg = WM_CLOSE -> OnClose(T, w, c)
          [] msg = WM_DESTROY -> OnDestroy(T, w, c)
          [] msg = WM_SIZE -> OnSize(T, w, c)
          [] msg = WM_GETMINMAXINFO -> OnGetMinMaxInfo(T, w, c)
          [] msg = WM_NCDESTROY -> OnNcDestroy(T, w, c)
          [] OTHER -> T

\* the message is sent, not posted: the window procedure runs inside the call
PostMessage_Sent(S, h, m) == WndProc(S, h, m, [ub |-> "crash", callsExit |-> FALSE])

\* PostMessage(hwnd, msg, 0, 0): the message is appended to the queue of the
\* thread of the window; nothing runs
PostMessage(S, h, m) == [S EXCEPT !.queue = Append(@, Msg(h, m, 0))]

\* SetWindowPos(hwnd, HWND_TOP, x, y, cx, cy, SWP_FRAMECHANGED): the window takes
\* the rectangle; when its client size changed, WM_SIZE is sent to WndProc
SetWindowPos(S, w, x, y, cx, cy, c) ==
    LET wrect == MkRECT(x, y, x + cx, y + cy)
        crect == ClientOf(wrect, S.win[w].style)
        T == [S EXCEPT !.win[w].wrect = wrect, !.win[w].crect = crect]
    IN  IF crect # S.win[w].crect THEN WndProc(T, w, WM_SIZE, c) ELSE T

\* the state after a handler, as the next state
Becomes(R) ==
    /\ win' = R.win
    /\ queue' = R.queue
    /\ quitFlag' = R.quit
    /\ crashed' = R.crashed

\* ------------------------------------------------ the _webview constructor
\* GetMonitorInfo(MonitorFromWindow(hwnd, MONITOR_DEFAULTTONEAREST), &mi)
GetMonitorInfo == [rcMonitor |-> rcMonitor, rcWork |-> rcWork]

\* CreateWindow(...), lines 61-72: a hidden window with the requested size and
\* style.  WM_GETMINMAXINFO reaches WndProc during creation, GWLP_USERDATA still 0.
CreateWindow(S, w, o, c) ==
    LET style == IF o.borderless THEN {} ELSE WS_OVERLAPPEDWINDOW
        wrect == MkRECT(1, 1, 1 + o.initial_width, 1 + o.initial_height)
        T == [S EXCEPT !.win[w] =
                 [NoWindow EXCEPT !.hwnd = "alive", !.handle = "constructing",
                                  !.opts = o, !.style = style, !.wrect = wrect,
                                  !.crect = ClientOf(wrect, style)]]
    IN  WndProc(T, w, WM_GETMINMAXINFO, c)

\* block without the status test: it always registers and waits
BlockWaits_Always(status) == TRUE

\* line 23 of block: async.Status() != AsyncStatus::Completed
BlockWaits(status) == status # "completed"

\* lines 76-128: the constructor after block returned the control.
\* ShowWindow shows the window for the first time, which sends it WM_SIZE.
Constructed(S, w, c) ==
    IF S.win[w].hwnd = "alive"
    THEN LET T == [S EXCEPT !.win[w].webview = TRUE,
                            !.win[w].userdata = TRUE,
                            !.win[w].fsHandler = TRUE,
                            !.win[w].handle = "live"]
             U == [T EXCEPT !.win[w].shown = TRUE,
                            !.win[w].style = @ \cup WS_VISIBLE]
         IN  WndProc(U, w, WM_SIZE, c)
    ELSE \* the window was destroyed during the wait: the calls on hwnd fail
         [S EXCEPT !.win[w].webview = TRUE,
                   !.win[w].fsHandler = TRUE,
                   !.win[w].handle = "live"]

\* the handler taking the work area of the monitor
screen_rect_Work(mi) == mi.rcWork

\* line 103: RECT screen_rect = mi.rcMonitor;
screen_rect(mi) == mi.rcMonitor

\* the handler without the early return of lines 91-92
SameAsCached_Never(fullscreen, saved_fullscreen) == FALSE

\* lines 91-92: if (fullscreen == saved_fullscreen) return;
SameAsCached(fullscreen, saved_fullscreen) == fullscreen = saved_fullscreen

\* lines 89-125: the ContainsFullScreenElementChanged handler.  r1 and r2 are the
\* values of the two reads of sender.ContainsFullScreenElement() (lines 90, 95);
\* g is what the uninitialised saved_rect holds if it is read before being written.
FullScreenChanged(S, w, r1, r2, g, c) ==
    LET x == S.win[w]
    IN  IF SameAsCached(r1, x.saved_fullscreen)
        THEN S
        ELSE LET A == [S EXCEPT !.win[w].saved_fullscreen = r1]
             IN  IF r2
                 THEN LET B == [A EXCEPT !.win[w].saved_rect = x.wrect,
                                         !.win[w].saved_rect_set = TRUE,
                                         !.win[w].saved_style = x.style,
                                         !.win[w].style =
                                             x.style \ (WS_CAPTION \cup WS_THICKFRAME)]
                          r == screen_rect(GetMonitorInfo)
                      IN  SetWindowPos(B, w,
                                       r.left,
                                       r.top,
                                       r.right - r.left,
                                       r.bottom - r.top, c)
                 ELSE LET saved_rect == IF x.saved_rect_set THEN x.saved_rect ELSE g
                          B == [A EXCEPT !.win[w].style = x.saved_style]
                      IN  SetWindowPos(B, w,
                                       saved_rect.left,
                                       saved_rect.top,
                                       saved_rect.right - saved_rect.left,
                                       saved_rect.bottom - saved_rect.top, c)

\* ------------------------------------------------------------ the actions
Pumping == MainLoop \/ InWait

\* a handler ran on the UI thread in the current context and left state R
Handled(R, op, w, a) ==
    /\ Becomes(R)
    /\ ev' = Ev(op, w, 0, a)
    /\ UNCHANGED <<uiPc, curFunc, waiting, MAIN_THREAD, retrievalFailed,
                   item, nextItem, execLog>>

\* webview_start, lines 163-186: sets MAIN_THREAD, registers the class, calls func()
webview_start ==
    /\ ~crashed
    /\ uiPc = "notstarted"
    /\ uiPc' = "entry"
    /\ MAIN_THREAD' = UIThreadId
    /\ ev' = Ev("webview_start", 0, 0, <<>>)
    /\ UNCHANGED <<curFunc, waiting, crashed, queue, quitFlag, retrievalFailed,
                   item, nextItem, execLog, win>>
    /\ envLeft' = envLeft

\* func() of line 186 returns: the loop of line 190 is entered
EntryReturn ==
    /\ UserCode
    /\ uiPc = "entry"
    /\ uiPc' = "loop"
    /\ ev' = Ev("EntryReturn", 0, 0, <<>>)
    /\ UNCHANGED <<curFunc, waiting, crashed, MAIN_THREAD, queue, quitFlag,
                   retrievalFailed, item, nextItem, execLog, win>>
    /\ envLeft' = envLeft

\* a loop that takes an empty queue for the quit signal
QuitRetrieved_OnEmpty(q, quit) == q = <<>>

\* GetMessage returns 0: WM_QUIT, synthesised when PostQuitMessage was called
\* and no posted message is left in the queue
QuitRetrieved(q, quit) == q = <<>> /\ quit

\* line 190: res == 0 ends the loop and webview_start returns
GetMessage_Quit ==
    /\ MainLoop
    /\ QuitRetrieved(queue, quitFlag)
    /\ uiPc' = "returned"
    /\ ev' = Ev("GetMessage_Quit", 0, 0, <<>>)
    /\ UNCHANGED <<curFunc, waiting, crashed, MAIN_THREAD, queue, quitFlag,
                   retrievalFailed, item, nextItem, execLog, win>>
    /\ envLeft' = envLeft

\* lines 192-193: res == -1 breaks out of the loop and webview_start returns
GetMessage_Fail ==
    /\ MainLoop
    /\ uiPc' = "returned"
    /\ retrievalFailed' = TRUE
    /\ ev' = Ev("GetMessage_Fail", 0, 0, <<>>)
    /\ UNCHANGED <<curFunc, waiting, crashed, MAIN_THREAD, queue, quitFlag,
                   item, nextItem, execLog, win>>
    /\ envLeft' = envLeft

\* lines 195-200: a message addressed to a window goes to its window procedure
DispatchMessage(c) ==
    /\ MainLoop
    /\ queue # <<>>
    /\ Head(queue).hwnd # 0
    /\ Handled(WndProc([Here EXCEPT !.queue = Tail(queue)],
                       Head(queue).hwnd, Head(queue).message, c),
               Head(queue).message, Head(queue).hwnd, <<>>)
    /\ envLeft' = envLeft

\* the queue after GetMessage removed the retrieved message
Retrieved(q) == Tail(q)

\* lines 202-207: a window-less WM_APP_DISPATCH message: dispatch->func(dispatch->data)
RunDispatch ==
    /\ MainLoop
    /\ queue # <<>>
    /\ Head(queue).hwnd = 0
    /\ Head(queue).message = WM_APP_DISPATCH
    /\ LET i == Head(queue).lParam
       IN  /\ curFunc' = i
           /\ item' = [item EXCEPT ![i].executed = @ + 1]
           /\ execLog' = Append(execLog, i)
           /\ ev' = Ev("func", 0, i, <<>>)
    /\ queue' = Retrieved(queue)
    /\ UNCHANGED <<uiPc, waiting, crashed, MAIN_THREAD, quitFlag, retrievalFailed,
                   nextItem, win>>
    /\ envLeft' = envLeft

\* lines 207-209: func returned; delete dispatch; break
FuncReturn ==
    /\ UserCode
    /\ curFunc # 0
    /\ item' = [item EXCEPT ![curFunc].released = @ + 1]
    /\ curFunc' = 0
    /\ ev' = Ev("FuncReturn", 0, curFunc, <<>>)
    /\ UNCHANGED <<uiPc, waiting, crashed, MAIN_THREAD, queue, quitFlag,
                   retrievalFailed, nextItem, execLog, win>>
    /\ envLeft' = envLeft

\* webview_dispatch, lines 214-221, from any thread at any time:
\* PostThreadMessage(MAIN_THREAD, WM_APP_DISPATCH, 0, new Dispatch) fails while
\* MAIN_THREAD is still 0
webview_dispatch ==
    /\ ~crashed
    /\ nextItem <= MaxItems
    /\ Len(queue) < MaxQueue
    /\ IF MAIN_THREAD = 0
       THEN /\ item' = [item EXCEPT ![nextItem].fate = "unposted"]
            /\ queue' = queue
       ELSE /\ item' = [item EXCEPT ![nextItem].fate = "posted",
                                    ![nextItem].inWait = waiting]
            /\ queue' = Append(queue, Msg(0, WM_APP_DISPATCH, nextItem))
    /\ nextItem' = nextItem + 1
    /\ ev' = Ev("webview_dispatch", 0, nextItem, <<>>)
    /\ UNCHANGED <<uiPc, curFunc, waiting, crashed, MAIN_THREAD, quitFlag,
                   retrievalFailed, execLog, win>>
    /\ envLeft' = envLeft

\* webview_exit, lines 223-226, called by host code on the UI thread
webview_exit ==
    /\ UserCode
    /\ quitFlag' = TRUE
    /\ ev' = Ev("webview_exit", 0, 0, <<>>)
    /\ UNCHANGED <<uiPc, curFunc, waiting, crashed, MAIN_THREAD, queue,
                   retrievalFailed, item, nextItem, execLog, win>>
    /\ envLeft' = envLeft

\* webview_new, lines 228-231, with the constructor up to the status test of block
\* (lines 59-74, 20-26); st is the status of the operation when block tests it
webview_new(w, o, st, c) ==
    /\ UserCode
    /\ win[w].hwnd = "none"
    /\ \A v \in Windows : v < w => win[v].hwnd # "none"
    /\ LET A == CreateWindow(Here, w, o, c)
           B == [A EXCEPT !.win[w].async = st,
                          !.win[w].Bounds = getClientRect(A.win[w].crect)]
       IN  IF BlockWaits(st)
           THEN /\ Becomes([B EXCEPT !.win[w].registered = TRUE,
                                     !.win[w].signalled = (st = "completed")])
                /\ waiting' = w
           ELSE /\ Becomes(Constructed(B, w, c))
                /\ waiting' = 0
    /\ ev' = Ev("webview_new", w, 0, <<st>>)
    /\ UNCHANGED <<uiPc, curFunc, MAIN_THREAD, retrievalFailed, item, nextItem, execLog>>
    /\ envLeft' = envLeft

\* the platform completes CreateWebViewControlAsync; the Completed handler that
\* block registered (line 26) sets the event
AsyncCompleted(w) ==
    /\ ~crashed
    /\ win[w].async = "pending"
    /\ win' = [win EXCEPT ![w].async = "completed", ![w].signalled = win[w].registered]
    /\ ev' = Ev("AsyncCompleted", w, 0, <<>>)
    /\ UNCHANGED <<uiPc, curFunc, waiting, crashed, MAIN_THREAD, queue, quitFlag,
                   retrievalFailed, item, nextItem, execLog>>
    /\ envLeft' = envLeft

\* lines 29-33 and 76-128: the wait ends on the event, GetResults, rest of the constructor
block_return(w, c) ==
    /\ InWait
    /\ waiting = w
    /\ win[w].signalled
    /\ Becomes(Constructed(Here, w, c))
    /\ waiting' = 0
    /\ ev' = Ev("block_return", w, 0, <<>>)
    /\ UNCHANGED <<uiPc, curFunc, MAIN_THREAD, retrievalFailed, item, nextItem, execLog>>
    /\ envLeft' = envLeft

\* CoWaitForMultipleHandles(COWAIT_DISPATCH_WINDOW_MESSAGES | ...), lines 29-31:
\* the wait dispatches the next message addressed to a window
CoWait_Window(k, c) ==
    /\ InWait
    /\ k \in 1..Len(queue)
    /\ queue[k].hwnd # 0
    /\ \A j \in 1..(k - 1) : queue[j].hwnd = 0
    /\ Handled(WndProc([Here EXCEPT !.queue = RemoveAt(queue, k)],
                       queue[k].hwnd, queue[k].message, c),
               queue[k].message, queue[k].hwnd, <<>>)
    /\ envLeft' = envLeft

\* lines 29-31: a window-less message retrieved by the wait has no window
\* procedure to go to; func is called only by the loop of webview_start (line 207)
CoWait_Thread ==
    /\ InWait
    /\ queue # <<>>
    /\ Head(queue).hwnd = 0
    /\ queue' = Tail(queue)
    /\ item' = [item EXCEPT ![Head(queue).lParam].fate = "discarded"]
    /\ ev' = Ev("CoWait_Thread", 0, Head(queue).lParam, <<>>)
    /\ UNCHANGED <<uiPc, curFunc, waiting, crashed, MAIN_THREAD, quitFlag,
                   retrievalFailed, nextItem, execLog, win>>
    /\ envLeft' = envLeft

\* webview_close, lines 255-258: PostMessage(self->hwnd, WM_CLOSE, 0, 0)
webview_close(w) ==
    /\ UserCode
    /\ win[w].handle = "live"
    /\ win[w].hwnd = "alive"
    /\ Len(queue) < MaxQueue
    /\ Becomes(PostMessage(Here, w, WM_CLOSE))
    /\ ev' = Ev("webview_close", w, 0, <<>>)
    /\ UNCHANGED <<uiPc, curFunc, waiting, MAIN_THREAD,
                   retrievalFailed, item, nextItem, execLog>>
    /\ envLeft' = envLeft

\* the environment (close button, another program) posts WM_CLOSE to a window
PostClose(w) ==
    /\ ~crashed
    /\ envLeft > 0
    /\ win[w].hwnd = "alive"
    /\ Len(queue) < MaxQueue
    /\ Becomes(PostMessage(Here, w, WM_CLOSE))
    /\ ev' = Ev("PostClose", w, 0, <<>>)
    /\ UNCHANGED <<uiPc, curFunc, waiting, MAIN_THREAD,
                   retrievalFailed, item, nextItem, execLog>>
    /\ envLeft' = envLeft - 1

\* the window manager gives the window a new rectangle of another client size;
\* WM_SIZE is sent to WndProc while the UI thread retrieves messages
WindowResized(w, r, c) ==
    /\ Pumping
    /\ envLeft > 0
    /\ win[w].hwnd = "alive"
    /\ ClientOf(r, win[w].style) # win[w].crect
    /\ Handled(SetWindowPos(Here, w, r.left, r.top,
                            r.right - r.left, r.bottom - r.top, c),
               WM_SIZE, w, <<>>)
    /\ envLeft' = envLeft - 1

\* the layout system queries the size constraints of a window
QueryMinMax(w, c) ==
    /\ Pumping
    /\ envLeft > 0
    /\ win[w].hwnd = "alive"
    /\ Handled(WndProc(Here, w, WM_GETMINMAXINFO, c),
               WM_GETMINMAXINFO, w, WndProc(Here, w, WM_GETMINMAXINFO, c).mmi)
    /\ envLeft' = envLeft - 1

\* the control raises ContainsFullScreenElementChanged; the handler of lines
\* 89-125 runs on the UI thread while it retrieves messages and calls
FullScreenNotify(w, r1, r2, g, c) ==
    /\ Pumping
    /\ envLeft > 0
    /\ win[w].fsHandler
    /\ win[w].handle = "live"
    /\ win[w].hwnd = "alive"
    /\ LET R == FullScreenChanged(Here, w, r1, r2, g, c)
           branch == IF r1 = win[w].saved_fullscreen THEN "return"
                     ELSE IF r2 THEN "enter" ELSE "exit"
           entered == branch = "enter" /\ ~win[w].fs_applied
       IN  Handled([R EXCEPT !.win[w].fs_applied =
                                 IF branch = "return" THEN @ ELSE branch = "enter",
                             !.win[w].pre_rect = IF entered THEN win[w].wrect ELSE @,
                             !.win[w].pre_style = IF entered THEN win[w].style ELSE @],
                   "FullScreenChanged", w,
                   <<r1, r2, win[w].saved_fullscreen, win[w].fs_applied>>)
    /\ envLeft' = envLeft - 1

Next ==
    \/ webview_start
    \/ EntryReturn
    \/ GetMessage_Quit
    \/ GetMessage_Fail
    \/ \E c \in Choices : DispatchMessage(c)
    \/ RunDispatch
    \/ FuncReturn
    \/ webview_dispatch
    \/ webview_exit
    \/ \E w \in Windows, c \in Choices :
          \E o \in OptionSet(w), st \in {"pending", "completed"} : webview_new(w, o, st, c)
    \/ \E w \in Windows : AsyncCompleted(w)
    \/ \E w \in Windows, c \in Choices : block_return(w, c)
    \/ \E k \in 1..MaxQueue, c \in Choices : CoWait_Window(k, c)
    \/ CoWait_Thread
    \/ \E w \in Windows : webview_close(w)
    \/ \E w \in Windows : PostClose(w)
    \/ \E w \in Windows, c \in Choices :
          \E r \in UserRects : WindowResized(w, r, c)
    \/ \E w \in Windows, c \in Choices : QueryMinMax(w, c)
    \/ \E w \in Windows, c \in Choices :
          \E r1 \in BOOLEAN, r2 \in BOOLEAN, g \in GarbageRects :
              FullScreenNotify(w, r1, r2, g, c)

Spec == Init /\ [][Next]_vars

\* The steps the UI thread takes by itself: host callbacks return, and the loop
\* of webview_start and the wait of block retrieve what is there to retrieve.
UIThreadStep ==
    \/ EntryReturn
    \/ GetMessage_Quit
    \/ \E c \in Choices : DispatchMessage(c)
    \/ RunDispatch
    \/ FuncReturn
    \/ \E w \in Windows, c \in Choices : block_return(w, c)
    \/ \E k \in 1..MaxQueue, c \in Choices : CoWait_Window(k, c)
    \/ CoWait_Thread

\* The UI thread keeps running while it can, and the platform completes every
\* control creation it started.
FairSpec ==
    /\ Spec
    /\ WF_vars(UIThreadStep)
    /\ \A w \in Windows : WF_vars(AsyncCompleted(w))

\* ------------------------------------------------------------- properties
HandlerOps == {WM_CLOSE, WM_DESTROY, WM_SIZE, WM_GETMINMAXINFO, "FullScreenChanged"}
\* PostThreadMessage succeeded for item i
Posted(i) == item[i].fate \in {"posted", "discarded"}
\* the position of item i in the order of execution, 0 if its func never started
ExecPos(i) ==
    IF \E k \in 1..Len(execLog) : execLog[k] = i
    THEN CHOOSE k \in 1..Len(execLog) : execLog[k] = i
    ELSE 0
Step(op) == vars' # vars /\ ev'.op = op

\* C1: every posted dispatch item is executed exactly once: its func never runs
\* twice, its Dispatch is released at most once and only after func ran, it is
\* never dropped, and none is left unexecuted when the loop ended on the quit signal.
C1_ExactlyOnce ==
    \A i \in Items :
        Posted(i) =>
            /\ item[i].executed <= 1
            /\ item[i].released <= item[i].executed
            /\ item[i].fate # "discarded"
            /\ (uiPc = "returned" /\ ~retrievalFailed) => item[i].released = 1

\* C2: a dispatch item posted while block is waiting is serviced by the wait: it
\* is not discarded by it, and until its func has run it is still queued.
C2_WaitServicesDispatch ==
    \A i \in Items :
        (Posted(i) /\ item[i].inWait # 0 /\ item[i].executed = 0) =>
            /\ item[i].fate # "discarded"
            /\ \E k \in 1..Len(queue) : queue[k] = Msg(0, WM_APP_DISPATCH, i)

\* C3: once the native window of a handle is destroyed, the closed callback has
\* been invoked exactly once, with the configured user data, and then the handle
\* has been released exactly once; nothing is invoked or released otherwise.
C3_ClosedOnceThenReleased ==
    \A w \in Windows :
        IF win[w].hwnd = "destroyed"
        THEN win[w].life = << <<"closed", win[w].opts.data>>, <<"delete", 0>> >>
        ELSE win[w].life = <<>>

\* C4: when the fullscreen handler leaves fullscreen (its exit branch runs while
\* the fullscreen mutation is applied), the window rectangle and style are those
\* the window had immediately before fullscreen was entered.
C4_ExitRestoresPreEnter ==
    \A w \in Windows :
        (/\ ev.op = "FullScreenChanged" /\ ev.w = w
         /\ ev.a[1] # ev.a[3] /\ ~ev.a[2] /\ ev.a[4]) =>
            /\ win[w].wrect = win[w].pre_rect
            /\ win[w].style = win[w].pre_style

\* C5: a "fullscreen element present" notification handled while the cached flag
\* is already true changes neither the window style, the window rectangle, nor
\* the saved rectangle, the saved style and the flag.
C5_DuplicatePresentIsNoOp ==
    [][\A w \in Windows :
          (/\ Step("FullScreenChanged") /\ ev'.w = w
           /\ ev'.a[1] = TRUE /\ win[w].saved_fullscreen = TRUE) =>
              /\ win'[w].style = win[w].style
              /\ win'[w].wrect = win[w].wrect
              /\ win'[w].saved_rect = win[w].saved_rect
              /\ win'[w].saved_rect_set = win[w].saved_rect_set
              /\ win'[w].saved_style = win[w].saved_style
              /\ win'[w].saved_fullscreen = win[w].saved_fullscreen]_vars

\* a duplicate "present" notification was handled for a window in fullscreen
C5_Witness ==
    /\ ev.op = "FullScreenChanged"
    /\ ev.a[1] = TRUE /\ ev.a[3] = TRUE
    /\ win[ev.w].saved_fullscreen
    /\ win[ev.w].wrect = rcMonitor
    /\ win[ev.w].saved_rect # rcMonitor

C7_Fifo ==
    \A i, j \in Items :
        (i < j /\ Posted(i) /\ Posted(j) /\ ExecPos(j) # 0) =>
            (ExecPos(i) # 0 /\ ExecPos(i) < ExecPos(j))

\* C8: webview_new whose control creation is already Completed when block tests
\* it registers no completion signal, enters no wait and retrieves no message:
\* the constructor finishes in the call and the queue and the items are untouched.
C8_CompletedReturnsImmediately ==
    [][\A w \in Windows :
          (Step("webview_new") /\ ev'.w = w /\ ev'.a = <<"completed">>) =>
              /\ ~win'[w].registered
              /\ waiting' = 0
              /\ win'[w].handle = "live"
              /\ queue' = queue
              /\ item' = item
              /\ execLog' = execLog]_vars

\* block returned the control of an already completed operation
C8_Witness ==
    /\ ev.op = "webview_new" /\ ev.a = <<"completed">>
    /\ win[ev.w].webview /\ win[ev.w].async = "completed"
    /\ ~win[ev.w].registered /\ waiting = 0

\* C9 as stated: webview_start has returned only if webview_exit posted the quit
\* signal, and never because retrieving a message failed.
C9_ReturnsOnlyOnQuit == uiPc = "returned" => (quitFlag /\ ~retrievalFailed)

\* C9 as amended: webview_start has returned only if webview_exit posted the
\* quit signal or retrieving a message failed (GetMessage returned -1).
C9_ReturnsOnQuitOrFailure == uiPc = "returned" => (quitFlag \/ retrievalFailed)

\* webview_start returned on a retrieval failure although no quit was posted
C9_Witness == uiPc = "returned" /\ retrievalFailed /\ ~quitFlag

\* C10: after WndProc handled a resize notification of a window, the bounds of
\* the control are the window's client rectangle: origin (0,0), client width and height.
C10_ResizeSetsBounds ==
    \A w \in Windows :
        (ev.op = WM_SIZE /\ ev.w = w) =>
            win[w].Bounds = Rect(0, 0,
                                 win[w].crect.right - win[w].crect.left,
                                 win[w].crect.bottom - win[w].crect.top)

\* ------------------------------------------- what the code does guarantee
\* the func of an item runs at most once, its Dispatch is released at most once
\* and only after its func ran
AtMostOnce ==
    \A i \in Items : item[i].executed <= 1 /\ item[i].released <= item[i].executed

\* among the items whose func ran, the order of execution is the order of posting
FifoAmongExecuted ==
    \A i, j \in Items :
        (i < j /\ ExecPos(i) # 0 /\ ExecPos(j) # 0) => ExecPos(i) < ExecPos(j)

\* no func starts while block is waiting
NoFuncInsideWait == ev.op = "func" => waiting = 0

\* for a window destroyed after its handle was stored in GWLP_USERDATA, the closed
\* callback ran once with opts.data and the handle was released once, after it
BoundHandleClosedThenReleased ==
    \A w \in Windows :
        /\ (win[w].hwnd = "destroyed" /\ win[w].userdata) =>
               win[w].life = << <<"closed", win[w].opts.data>>, <<"delete", 0>> >>
        /\ (win[w].hwnd # "destroyed" \/ ~win[w].userdata) => win[w].life = <<>>

\* a resize notification of a window whose handle is stored in GWLP_USERDATA sets
\* the control's bounds to the client rectangle
BoundResizeSetsBounds ==
    \A w \in Windows :
        (ev.op = WM_SIZE /\ ev.w = w /\ win[w].userdata) =>
            win[w].Bounds = Rect(0, 0,
                                 win[w].crect.right - win[w].crect.left,
                                 win[w].crect.bottom - win[w].crect.top)

\* the exit branch puts back the rectangle and style the enter branch saved last
ExitRestoresSaved ==
    \A w \in Windows :
        (/\ ev.op = "FullScreenChanged" /\ ev.w = w
         /\ ev.a[1] # ev.a[3] /\ ~ev.a[2] /\ win[w].saved_rect_set) =>
            /\ win[w].wrect = win[w].saved_rect
            /\ win[w].style = win[w].saved_style

\* ---------------------------------------------------- size-constraint query
\* C11 as stated: after a size-constraint query was handled for a window, the
\* minimum track size reported is (minimum_width, minimum_height) of its options.
C11_ReportsConfiguredMinimum ==
    \A w \in Windows :
        (ev.op = WM_GETMINMAXINFO /\ ev.w = w) =>
            ev.a = <<win[w].opts.minimum_width, win[w].opts.minimum_height>>

\* n as a LONG holds it: the value of LONG range congruent to n
IsLONGOf(r, n) ==
    /\ r >= -(2 ^ (LongBits - 1))
    /\ r < 2 ^ (LongBits - 1)
    /\ (r - n) % (2 ^ LongBits) = 0

\* C11 as amended: a size-constraint query handled for a window whose handle is
\* stored in its GWLP_USERDATA reports the configured minimum width and height
\* as LONG values (the configured values themselves when they fit a LONG); a
\* query handled before the handle is stored reports the system's default.
C11_BoundReportsConvertedMinimum ==
    \A w \in Windows :
        (ev.op = WM_GETMINMAXINFO /\ ev.w = w) =>
            IF win[w].userdata
            THEN /\ IsLONGOf(ev.a[1], win[w].opts.minimum_width)
                 /\ IsLONGOf(ev.a[2], win[w].opts.minimum_height)
                 /\ (win[w].opts.minimum_width < 2 ^ (LongBits - 1) =>
                         ev.a[1] = win[w].opts.minimum_width)
                 /\ (win[w].opts.minimum_height < 2 ^ (LongBits - 1) =>
                         ev.a[2] = win[w].opts.minimum_height)
            ELSE ev.a = DefaultMinTrack

\* a query was handled for a bound window and reported its configured minimum width
C11_Witness ==
    /\ ev.op = WM_GETMINMAXINFO
    /\ win[ev.w].userdata
    /\ ev.a[1] = win[ev.w].opts.minimum_width
    /\ ev.a # DefaultMinTrack

\* ------------------------------------------------------------- construction
\* webview_new has just returned the handle of window w to its caller
NewReturned(w) ==
    /\ ev.op \in {"webview_new", "block_return"}
    /\ ev.w = w
    /\ waiting # w
    /\ ~crashed

\* C12: when webview_new returns a handle, its window is Active: the native window
\* exists, the control is attached, the handle is bound to the window, the
\* fullscreen handler is registered and the window has been shown; and a window
\* is never shown before its control is attached.
C12_NewReturnsActive ==
    \A w \in Windows :
        /\ NewReturned(w) =>
               /\ win[w].hwnd = "alive"
               /\ win[w].handle = "live"
               /\ win[w].webview
               /\ win[w].userdata
               /\ win[w].fsHandler
               /\ win[w].shown
        /\ (win[w].hwnd = "alive" /\ win[w].shown) => win[w].webview

\* webview_new returns a handle whose window is Active provided its window still
\* exists, and no window is shown before its control is attached
NewReturnsActiveIfAlive ==
    \A w \in Windows :
        /\ (NewReturned(w) /\ win[w].hwnd = "alive") =>
               /\ win[w].handle = "live"
               /\ win[w].webview
               /\ win[w].userdata
               /\ win[w].fsHandler
               /\ win[w].shown
        /\ (win[w].hwnd = "alive" /\ win[w].shown) => win[w].webview

\* --------------------------------------------------------------------- close
\* C13: webview_close only posts a close request: when it returns, the native
\* window still exists, the closed callback has not been invoked and the handle
\* has not been released, and the request is the last message of the queue; the
\* closed callback runs and the handle is released only in a step in which the
\* UI thread handles the WM_CLOSE message of the window.
C13_CloseOnlyPosts ==
    [][\A w \in Windows :
          /\ (Step("webview_close") /\ ev'.w = w) =>
                 /\ win' = win
                 /\ win'[w].life = <<>>
                 /\ win'[w].handle = "live"
                 /\ queue' = Append(queue, Msg(w, WM_CLOSE, 0))
          /\ (win'[w].life # win[w].life \/ win'[w].hwnd # win[w].hwnd) =>
                 \/ ev'.op = WM_CLOSE /\ ev'.w = w
                 \/ ev'.op = "webview_new" /\ ev'.w = w /\ win[w].hwnd = "none"]_vars

\* webview_close returned: its request is queued and the window is untouched
C13_Witness ==
    /\ ev.op = "webview_close"
    /\ win[ev.w].hwnd = "alive"
    /\ win[ev.w].handle = "live"
    /\ win[ev.w].life = <<>>
    /\ queue # <<>>
    /\ queue[Len(queue)] = Msg(ev.w, WM_CLOSE, 0)

\* ---------------------------------------------------------------------- exit
\* C14: once webview_exit has been called while the loop of webview_start is
\* running, webview_start eventually returns.
C14_ExitEndsLoop == (ev.op = "webview_exit" /\ uiPc = "loop") ~> (uiPc = "returned")

\* once webview_exit has been called while the loop is running, webview_start
\* eventually returns unless the process faults first
ExitEndsLoopUnlessFault ==
    (ev.op = "webview_exit" /\ uiPc = "loop") ~> (uiPc = "returned" \/ crashed)

\* ---------------------------------------------------------------- fullscreen
\* the fullscreen handler has just run its enter branch for window w
EnterBranchTaken(w) ==
    /\ ev.op = "FullScreenChanged" /\ ev.w = w
    /\ ev.a[1] # ev.a[3] /\ ev.a[2]

\* the fullscreen handler has just run its exit branch for window w
ExitBranchTaken(w) ==
    /\ ev.op = "FullScreenChanged" /\ ev.w = w
    /\ ev.a[1] # ev.a[3] /\ ~ev.a[2]

\* C15 as stated: after the enter branch the window has no caption and no
\* resize-frame style bit and its rectangle is the work area of its monitor.
C15_EnterUsesWorkArea ==
    \A w \in Windows :
        EnterBranchTaken(w) =>
            /\ win[w].style \cap (WS_CAPTION \cup WS_THICKFRAME) = {}
            /\ win[w].wrect = GetMonitorInfo.rcWork

\* C15 as amended: after the enter branch the window has no caption and no
\* resize-frame style bit and its rectangle is the full rectangle of its monitor
\* (rcMonitor, not the work area); the bits were stripped before the resize, so
\* the client area is the whole monitor rectangle.
C15_EnterUsesMonitorRect ==
    \A w \in Windows :
        EnterBranchTaken(w) =>
            /\ win[w].style \cap (WS_CAPTION \cup WS_THICKFRAME) = {}
            /\ win[w].wrect = GetMonitorInfo.rcMonitor
            /\ win[w].crect = MkRECT(0, 0,
                                     rcMonitor.right - rcMonitor.left,
                                     rcMonitor.bottom - rcMonitor.top)

\* a framed window of another size has entered fullscreen
C15_Witness ==
    /\ EnterBranchTaken(ev.w)
    /\ ~ev.a[4]
    /\ win[ev.w].wrect = rcMonitor
    /\ win[ev.w].saved_rect # rcMonitor
    /\ WS_CAPTION \subseteq win[ev.w].saved_style

\* C16: a fullscreen-change notification that reports no fullscreen element
\* while the cached flag is false changes neither the window style, the window
\* rectangle, the saved rectangle, the saved style nor the flag; and the exit
\* branch runs only when the cached flag was true.
C16_ExitOnlyWhenFlagSet ==
    [][\A w \in Windows :
          (Step("FullScreenChanged") /\ ev'.w = w) =>
              /\ (ev'.a[1] = FALSE /\ win[w].saved_fullscreen = FALSE) =>
                     /\ win'[w].style = win[w].style
                     /\ win'[w].wrect = win[w].wrect
                     /\ win'[w].saved_rect = win[w].saved_rect
                     /\ win'[w].saved_rect_set = win[w].saved_rect_set
                     /\ win'[w].saved_style = win[w].saved_style
                     /\ win'[w].saved_fullscreen = win[w].saved_fullscreen
              /\ (ev'.a[1] # ev'.a[3] /\ ~ev'.a[2]) => win[w].saved_fullscreen = TRUE]_vars

\* a notification whose first read reports no fullscreen element while the cached
\* flag is false changes nothing
NoElementWhileClearIsNoOp ==
    [][\A w \in Windows :
          (/\ Step("FullScreenChanged") /\ ev'.w = w
           /\ ev'.a[1] = FALSE /\ win[w].saved_fullscreen = FALSE) =>
              /\ win'[w].style = win[w].style
              /\ win'[w].wrect = win[w].wrect
              /\ win'[w].saved_rect = win[w].saved_rect
              /\ win'[w].saved_rect_set = win[w].saved_rect_set
              /\ win'[w].saved_style = win[w].saved_style
              /\ win'[w].saved_fullscreen = win[w].saved_fullscreen]_vars

\* C20: the cached fullscreen flag of a window is true exactly when the last
\* branch its fullscreen handler took was the enter branch, and then the saved
\* rectangle and style are those the window had before it entered fullscreen.
C20_FlagMatchesMutation ==
    \A w \in Windows :
        /\ win[w].saved_fullscreen = win[w].fs_applied
        /\ win[w].fs_applied =>
               /\ win[w].saved_rect = win[w].pre_rect
               /\ win[w].saved_style = win[w].pre_style

\* when the two reads of a notification agree, the flag follows the branch taken
FlagMatchesBranchWhenReadsAgree ==
    \A w \in Windows :
        (/\ ev.op = "FullScreenChanged" /\ ev.w = w
         /\ ev.a[1] = ev.a[2] /\ ev.a[1] # ev.a[3]) =>
            win[w].saved_fullscreen = win[w].fs_applied

\* ------------------------------------------------------- validity of handles
\* C17: after WM_DESTROY released the handle of a window, no message handled for
\* that window obtains the released handle from the window (GWLP_USERDATA), and
\* no handler dereferences it.
C17_NoUseAfterRelease ==
    \A w \in Windows :
        win[w].faults \cap {"stale_lookup", "stale_deref"} = {}

\* no handler dereferences a released handle
NoDerefAfterRelease ==
    \A w \in Windows : "stale_deref" \notin win[w].faults

\* C19: while a window is in state Created (its native window exists, block has
\* not returned the control and the handle is not stored in GWLP_USERDATA), no
\* message handled for it dereferences the handle.
C19_NoDerefWhileCreated ==
    \A w \in Windows : "null_deref" \notin win[w].faults

\* a size-constraint query handled for a window in state Created does not
\* dereference the handle
QueryWhileCreatedIsGuarded ==
    [][\A w \in Windows :
          (Step(WM_GETMINMAXINFO) /\ ev'.w = w /\ ~win[w].userdata) =>
              (win'[w].faults = win[w].faults /\ crashed' = crashed)]_vars

\* --------------------------------------------------------------- destruction
\* window w is Destroyed: its native window is gone, the closed callback fired
\* once with opts.data and then the handle was released
Destroyed(w) ==
    /\ win[w].hwnd = "destroyed"
    /\ win[w].handle = "freed"
    /\ win[w].life = << <<"closed", win[w].opts.data>>, <<"delete", 0>> >>

\* the UI thread has stopped retrieving messages: the process faulted or the
\* loop ended on a retrieval failure
PumpingStopped == crashed \/ retrievalFailed

\* C18: after webview_close was called on an Active window the window eventually
\* is Destroyed, as long as the UI thread keeps retrieving messages.
C18_CloseLeadsToDestroyed ==
    \A w \in Windows :
        (ev.op = "webview_close" /\ ev.w = w) ~> (Destroyed(w) \/ PumpingStopped)

\* the loop handled the close request posted by webview_close (the environment
\* raised no event) and the window is Destroyed
C18_Witness ==
    /\ ev.op = WM_CLOSE
    /\ envLeft = MaxEnv
    /\ Destroyed(ev.w)
    /\ ~PumpingStopped

====
